---- MODULE Spec2Model ----
(***************************************************************************)
(* A model of the netdi dependency-injection container:                    *)
(*   ServiceCollection (src/src/serviceCollection.ts), the builder of the  *)
(*   descriptor map, and ServiceProvider / ServiceScope                    *)
(*   (src/unnamed/part_001), the resolution engine and its scopes.         *)
(*                                                                         *)
(* Objects created by `new ctor(...)` or by a factory are numbered in the  *)
(* order of their creation: an instance is its index in `heap`, so two     *)
(* instances are reference-identical iff their numbers are equal.          *)
(***************************************************************************)
EXTENDS Integers, Sequences, FiniteSets, TLC

\* Bounds of the model.
MaxEngines == 3
MaxInstances == 3
MaxDepth == 3

\* Bounds of the specification with dependent services.
DepMaxEngines == 2
DepMaxInstances == 3

\* Bounds of the specification with registrations after build().
LateMaxEngines == 2
LateMaxInstances == 3

\* Bounds of the specification with circular dependencies.
CycleMaxEngines == 2
CycleMaxInstances == 3

\* Bounds of the specification with two services sharing a dependency.
ShareMaxEngines == 2
ShareMaxInstances == 4

\* Bounds of the specification with descriptors written by hand.
RawMaxEngines == 2
RawMaxInstances == 3

\* Service identifiers (createServiceIdentifier() symbols).
ServiceIds == {"A", "B"}

\* The lifetime tags of ServiceLifetime, and a tag that is none of them.
Lifetimes == {"singleton", "scoped", "transient"}
InvalidLifetime == "invalid"

\* `undefined`, as the value of ServiceDescriptor.factory when it is absent.
NoFactory == [name |-> "undefined", proto |-> FALSE, uses |-> <<>>]

\* The global Object constructor: no 'design:paramtypes' metadata.
ObjectClass == [name |-> "Object", proto |-> TRUE, uses |-> <<>>]

\* An @injectable class whose constructor takes one @inject("B") parameter.
NeedsB == [name |-> "NeedsB", proto |-> TRUE, uses |-> <<"B">>]

\* An arrow function (provider) => new Widget(): no prototype property.
Factory0 == [name |-> "Widget", proto |-> FALSE, uses |-> <<>>]

\* The values client code passes as implementationOrFactory.
Impls == {ObjectClass, NeedsB, Factory0}

\* An identifier no client registers (the 'IUserRepository' of the tests).
Unregistered == "U"

\* A class whose constructor takes @inject("B") and @inject("U") parameters.
NeedsBU == [name |-> "NeedsBU", proto |-> TRUE, uses |-> <<"B", Unregistered>>]

\* An arrow function (provider) => new FromB(provider.getService("B")).
FactoryB == [name |-> "FromB", proto |-> FALSE, uses |-> <<"B">>]

\* A class whose constructor takes an @inject("A") parameter.
NeedsA == [name |-> "NeedsA", proto |-> TRUE, uses |-> <<"A">>]

\* The implementations of a service that depends on service "B".
DepImpls == {NeedsB, NeedsBU, FactoryB}

VARIABLES
    descriptors,  \* ServiceCollection._descriptors, the Map shared with engines
    engines,      \* the ServiceProvider objects, in order of creation
    heap,         \* the service instances, in order of creation
    last,         \* the last call made by the client and its outcome
    mark          \* history: one earlier getService call, remembered

vars == <<descriptors, engines, heap, last, mark>>

EmptyMap == [x \in {} |-> 0]

\* Map.prototype.set on an instance cache.
MapSet(m, k, v) == [x \in (DOMAIN m) \cup {k} |-> IF x = k THEN v ELSE m[x]]

-----------------------------------------------------------------------------
\* The descriptor Map: a sequence of descriptors in insertion order.

HasDescriptor(D, id) == \E i \in 1..Len(D) : D[i].serviceType = id

DescriptorOf(D, id) == D[CHOOSE i \in 1..Len(D) : D[i].serviceType = id]

\* A set() that keeps the descriptor an identifier already has.
DescriptorsSet_keepFirst(D, d) ==
    IF HasDescriptor(D, d.serviceType) THEN D ELSE Append(D, d)

\* Map.prototype.set on the descriptor Map: an existing key keeps its place.
DescriptorsSet(D, d) ==
    IF HasDescriptor(D, d.serviceType)
    THEN [i \in 1..Len(D) |-> IF D[i].serviceType = d.serviceType THEN d ELSE D[i]]
    ELSE Append(D, d)

isConstructor(func) == func.proto

add(D, serviceType, implementationOrFactory, lifetime) ==
    IF ~isConstructor(implementationOrFactory)
    THEN DescriptorsSet(D, [serviceType |-> serviceType,
                            implementationType |-> ObjectClass,
                            lifetime |-> lifetime,
                            factory |-> implementationOrFactory])
    ELSE DescriptorsSet(D, [serviceType |-> serviceType,
                            implementationType |-> implementationOrFactory,
                            lifetime |-> lifetime,
                            factory |-> NoFactory])

-----------------------------------------------------------------------------
\* Resolution.  A resolution runs on one engine; `st` carries that engine's
\* two caches and the heap through the nested calls, and the result carries
\* them back together with the outcome.

\* `about` is what the message of a thrown Error names: the identifier that
\* has no descriptor, or the lifetime tag that is not known.
Return(st, i) == [status |-> "ok", inst |-> i, about |-> "",
                  single |-> st.single, scoped |-> st.scoped, heap |-> st.heap]

Throw(st, err) == [status |-> err, inst |-> 0, about |-> "",
                   single |-> st.single, scoped |-> st.scoped, heap |-> st.heap]

\* throw new Error(`... ${what} ...`)
ThrowAbout(st, err, what) == [Throw(st, err) EXCEPT !.about = what]

\* new ctor(...params): a new object, distinct from every earlier one.
New(st, name, params) ==
    LET h == Append(st.heap, [class |-> name, deps |-> params])
    IN  [status |-> "ok", inst |-> Len(h), about |-> "",
         single |-> st.single, scoped |-> st.scoped, heap |-> h]

RECURSIVE getService(_, _, _, _)
RECURSIVE resolveService(_, _, _, _)
RECURSIVE resolveParams(_, _, _, _, _)

RECURSIVE resolveParams_wraps(_, _, _, _, _)
\* A parameter loop that catches the error of a nested call and throws one
\* of its own about the parameter.
resolveParams_wraps(D, st, uses, params, fuel) ==
    IF Len(params) = Len(uses) THEN Return(st, 0)
    ELSE IF fuel = 0 THEN Throw(st, "RangeError")
    ELSE LET r == getService(D, st, uses[Len(params) + 1], fuel - 1)
         IN  IF r.status # "ok"
             THEN [r EXCEPT !.status = "DependencyError", !.about = "parameter"]
             ELSE resolveParams_wraps(D, r, uses, Append(params, r.inst), fuel)

\* paramTypes.map(... this.getService(serviceType)), then new ctor(...params).
\* `fuel` is the call-stack depth left: a nested call with none left is the
\* engine's "Maximum call stack size exceeded" RangeError.
resolveParams(D, st, uses, params, fuel) ==
    IF Len(params) = Len(uses) THEN Return(st, 0)
    ELSE IF fuel = 0 THEN Throw(st, "RangeError")
    ELSE LET r == getService(D, st, uses[Len(params) + 1], fuel - 1)
         IN  IF r.status # "ok" THEN r
             ELSE resolveParams(D, r, uses, Append(params, r.inst), fuel)

RECURSIVE paramsOf(_, _, _, _, _)
\* The instances resolveParams collects, when every nested call succeeds.
paramsOf(D, st, uses, params, fuel) ==
    IF Len(params) = Len(uses) \/ fuel = 0 THEN params
    ELSE LET r == getService(D, st, uses[Len(params) + 1], fuel - 1)
         IN  IF r.status # "ok" THEN params
             ELSE paramsOf(D, r, uses, Append(params, r.inst), fuel)

\* The classes written without any decorator: the compiler emits no
\* 'design:paramtypes' metadata for them.
PlainClasses == {"Object"}

\* Reflect.getMetadata('design:paramtypes', ctor) is not undefined.
hasDesignParamTypes(ctor) == ctor.name \notin PlainClasses

\* Reflect.getMetadata('design:paramtypes', ctor) ?? [], each entry read as
\* the identifier its @inject decorator recorded.
paramTypes(ctor) == IF hasDesignParamTypes(ctor) THEN ctor.uses ELSE <<>>

\* createInstance without the `?? []`: mapping over undefined is a TypeError.
createInstance_requiresMetadata(D, st, ctor, fuel) ==
    IF ~hasDesignParamTypes(ctor) THEN Throw(st, "TypeError")
    ELSE LET r == resolveParams(D, st, ctor.uses, <<>>, fuel)
         IN  IF r.status # "ok" THEN r
             ELSE New(r, ctor.name, paramsOf(D, st, ctor.uses, <<>>, fuel))

\* createInstance that builds its parameters itself instead of asking the
\* engine for them.
createInstance_newDeps(D, st, ctor, fuel) ==
    IF ctor.uses = <<>> THEN New(st, ctor.name, <<>>)
    ELSE LET d == New(st, "Object", <<>>)
         IN  New(d, ctor.name, [i \in 1..Len(ctor.uses) |-> d.inst])

\* createInstance that resolves the parameters on an engine of its own, with
\* empty caches, and keeps nothing of what that engine stored.
createInstance_detached(D, st, ctor, fuel) ==
    LET fresh == [st EXCEPT !.single = EmptyMap, !.scoped = EmptyMap]
        r == resolveParams(D, fresh, ctor.uses, <<>>, fuel)
    IN  IF r.status # "ok" THEN [r EXCEPT !.single = st.single, !.scoped = st.scoped]
        ELSE [New(r, ctor.name, paramsOf(D, fresh, ctor.uses, <<>>, fuel))
                EXCEPT !.single = st.single, !.scoped = st.scoped]

createInstance(D, st, ctor, fuel) ==
    LET r == resolveParams(D, st, paramTypes(ctor), <<>>, fuel)
    IN  IF r.status # "ok" THEN r
        ELSE New(r, ctor.name, paramsOf(D, st, paramTypes(ctor), <<>>, fuel))

\* A factory called with an engine of its own, with empty caches, instead of
\* the engine that resolves.
callFactory_detached(D, st, factory, fuel) ==
    LET fresh == [st EXCEPT !.single = EmptyMap, !.scoped = EmptyMap]
        r == resolveParams(D, fresh, factory.uses, <<>>, fuel)
    IN  IF r.status # "ok" THEN [r EXCEPT !.single = st.single, !.scoped = st.scoped]
        ELSE [New(r, factory.name, paramsOf(D, fresh, factory.uses, <<>>, fuel))
                EXCEPT !.single = st.single, !.scoped = st.scoped]

\* factory(this): the factory body asks the engine it is given for the
\* services it uses and builds a new object from them.
callFactory(D, st, factory, fuel) ==
    LET r == resolveParams(D, st, factory.uses, <<>>, fuel)
    IN  IF r.status # "ok" THEN r
        ELSE New(r, factory.name, paramsOf(D, st, factory.uses, <<>>, fuel))

\* A construction that instantiates the implementation type first and, with
\* a factory, throws that instance away and calls the factory too.
construct_both(D, st, descriptor, fuel) ==
    LET c == createInstance(D, st, descriptor.implementationType, fuel)
    IN  IF c.status # "ok" \/ descriptor.factory = NoFactory THEN c
        ELSE callFactory(D, c, descriptor.factory, fuel)

\* factory ? factory(this) : this.createInstance(implementationType)
construct(D, st, descriptor, fuel) ==
    IF descriptor.factory # NoFactory
    THEN callFactory(D, st, descriptor.factory, fuel)
    ELSE createInstance(D, st, descriptor.implementationType, fuel)

\* resolveService with the singleton cache never consulted.
resolveService_noSingletonHit(D, st, descriptor, fuel) ==
    LET r == construct(D, st, descriptor, fuel)
    IN  CASE descriptor.lifetime = "singleton" ->
               IF r.status # "ok" THEN r
               ELSE [r EXCEPT !.single = MapSet(r.single, descriptor.serviceType, r.inst)]
          [] descriptor.lifetime = "scoped" ->
               IF descriptor.serviceType \in DOMAIN st.scoped
               THEN Return(st, st.scoped[descriptor.serviceType])
               ELSE IF r.status # "ok" THEN r
               ELSE [r EXCEPT !.scoped = MapSet(r.scoped, descriptor.serviceType, r.inst)]
          [] descriptor.lifetime = "transient" -> r
          [] OTHER -> Throw(st, "UnknownLifetime")

\* resolveService with a scoped instance constructed but never stored.
resolveService_scopedNotStored(D, st, descriptor, fuel) ==
    CASE descriptor.lifetime = "singleton" ->
           IF descriptor.serviceType \in DOMAIN st.single
           THEN Return(st, st.single[descriptor.serviceType])
           ELSE LET r == construct(D, st, descriptor, fuel)
                IN  IF r.status # "ok" THEN r
                    ELSE [r EXCEPT !.single = MapSet(r.single, descriptor.serviceType, r.inst)]
      [] descriptor.lifetime \in {"scoped", "transient"} ->
           construct(D, st, descriptor, fuel)
      [] OTHER -> Throw(st, "UnknownLifetime")

\* resolveService with scoped instances kept in the singleton cache.
resolveService_scopedInSingletons(D, st, descriptor, fuel) ==
    CASE descriptor.lifetime \in {"singleton", "scoped"} ->
           IF descriptor.serviceType \in DOMAIN st.single
           THEN Return(st, st.single[descriptor.serviceType])
           ELSE LET r == construct(D, st, descriptor, fuel)
                IN  IF r.status # "ok" THEN r
                    ELSE [r EXCEPT !.single = MapSet(r.single, descriptor.serviceType, r.inst)]
      [] descriptor.lifetime = "transient" -> construct(D, st, descriptor, fuel)
      [] OTHER -> Throw(st, "UnknownLifetime")

\* resolveService with transient instances cached like scoped ones.
resolveService_transientCached(D, st, descriptor, fuel) ==
    CASE descriptor.lifetime = "singleton" ->
           IF descriptor.serviceType \in DOMAIN st.single
           THEN Return(st, st.single[descriptor.serviceType])
           ELSE LET r == construct(D, st, descriptor, fuel)
                IN  IF r.status # "ok" THEN r
                    ELSE [r EXCEPT !.single = MapSet(r.single, descriptor.serviceType, r.inst)]
      [] descriptor.lifetime \in {"scoped", "transient"} ->
           IF descriptor.serviceType \in DOMAIN st.scoped
           THEN Return(st, st.scoped[descriptor.serviceType])
           ELSE LET r == construct(D, st, descriptor, fuel)
                IN  IF r.status # "ok" THEN r
                    ELSE [r EXCEPT !.scoped = MapSet(r.scoped, descriptor.serviceType, r.inst)]
      [] OTHER -> Throw(st, "UnknownLifetime")

\* resolveService whose default branch constructs instead of throwing.
resolveService_defaultConstructs(D, st, descriptor, fuel) ==
    CASE descriptor.lifetime = "singleton" ->
           IF descriptor.serviceType \in DOMAIN st.single
           THEN Return(st, st.single[descriptor.serviceType])
           ELSE LET r == construct(D, st, descriptor, fuel)
                IN  IF r.status # "ok" THEN r
                    ELSE [r EXCEPT !.single = MapSet(r.single, descriptor.serviceType, r.inst)]
      [] descriptor.lifetime = "scoped" ->
           IF descriptor.serviceType \in DOMAIN st.scoped
           THEN Return(st, st.scoped[descriptor.serviceType])
           ELSE LET r == construct(D, st, descriptor, fuel)
                IN  IF r.status # "ok" THEN r
                    ELSE [r EXCEPT !.scoped = MapSet(r.scoped, descriptor.serviceType, r.inst)]
      [] OTHER -> construct(D, st, descriptor, fuel)

\* resolveService that reserves the cache entry before it constructs.
resolveService_storesFirst(D, st, descriptor, fuel) ==
    LET id == descriptor.serviceType
    IN  CASE descriptor.lifetime = "singleton" ->
               IF id \in DOMAIN st.single
               THEN Return(st, st.single[id])
               ELSE LET r == construct(D, [st EXCEPT !.single = MapSet(st.single, id, 0)],
                                       descriptor, fuel)
                    IN  IF r.status # "ok" THEN r
                        ELSE [r EXCEPT !.single = MapSet(r.single, id, r.inst)]
          [] descriptor.lifetime = "scoped" ->
               IF id \in DOMAIN st.scoped
               THEN Return(st, st.scoped[id])
               ELSE LET r == construct(D, [st EXCEPT !.scoped = MapSet(st.scoped, id, 0)],
                                       descriptor, fuel)
                    IN  IF r.status # "ok" THEN r
                        ELSE [r EXCEPT !.scoped = MapSet(r.scoped, id, r.inst)]
          [] descriptor.lifetime = "transient" -> construct(D, st, descriptor, fuel)
          [] OTHER -> Throw(st, "UnknownLifetime")

\* resolveService that, on a cache miss, asks the engine for the service
\* again instead of constructing it.
resolveService_recursesOnMiss(D, st, descriptor, fuel) ==
    LET id == descriptor.serviceType
        again == IF fuel = 0 THEN Throw(st, "RangeError")
                 ELSE getService(D, st, id, fuel - 1)
    IN  CASE descriptor.lifetime = "singleton" ->
               IF id \in DOMAIN st.single THEN Return(st, st.single[id]) ELSE again
          [] descriptor.lifetime = "scoped" ->
               IF id \in DOMAIN st.scoped THEN Return(st, st.scoped[id]) ELSE again
          [] descriptor.lifetime = "transient" -> construct(D, st, descriptor, fuel)
          [] OTHER -> Throw(st, "UnknownLifetime")

resolveService(D, st, descriptor, fuel) ==
    LET serviceType == descriptor.serviceType
        lifetime == descriptor.lifetime
    IN  CASE lifetime = "singleton" ->
               IF serviceType \in DOMAIN st.single
               THEN Return(st, st.single[serviceType])
               ELSE LET r == construct(D, st, descriptor, fuel)
                    IN  IF r.status # "ok" THEN r
                        ELSE [r EXCEPT !.single = MapSet(r.single, serviceType, r.inst)]
          [] lifetime = "scoped" ->
               IF serviceType \in DOMAIN st.scoped
               THEN Return(st, st.scoped[serviceType])
               ELSE LET r == construct(D, st, descriptor, fuel)
                    IN  IF r.status # "ok" THEN r
                        ELSE [r EXCEPT !.scoped = MapSet(r.scoped, serviceType, r.inst)]
          [] lifetime = "transient" -> construct(D, st, descriptor, fuel)
          [] OTHER -> ThrowAbout(st, "UnknownLifetime", lifetime)

\* getService that resolves to undefined when there is no descriptor.
getService_noThrow(D, st, serviceType, fuel) ==
    IF ~HasDescriptor(D, serviceType)
    THEN Return(st, 0)
    ELSE resolveService(D, st, DescriptorOf(D, serviceType), fuel)

\* getService that empties the scoped cache when the resolution fails.
getService_resetOnFailure(D, st, serviceType, fuel) ==
    IF ~HasDescriptor(D, serviceType)
    THEN ThrowAbout(st, "NotRegistered", serviceType)
    ELSE LET r == resolveService(D, st, DescriptorOf(D, serviceType), fuel)
         IN  IF r.status # "ok" THEN [r EXCEPT !.scoped = EmptyMap] ELSE r

getService(D, st, serviceType, fuel) ==
    IF ~HasDescriptor(D, serviceType)
    THEN ThrowAbout(st, "NotRegistered", serviceType)
    ELSE resolveService(D, st, DescriptorOf(D, serviceType), fuel)

\* A constructor without the pre-resolution loop.
preResolve_none(D, st, k, fuel) == Return(st, 0)

RECURSIVE preResolve_swallow(_, _, _, _)
\* A pre-resolution loop that catches the error of a singleton and goes on.
preResolve_swallow(D, st, k, fuel) ==
    IF k > Len(D) THEN Return(st, 0)
    ELSE IF D[k].lifetime = "singleton"
         THEN LET r == resolveService(D, st, D[k], fuel)
              IN  IF r.status # "ok" THEN preResolve_swallow(D, st, k + 1, fuel)
                  ELSE preResolve_swallow(D, r, k + 1, fuel)
         ELSE preResolve_swallow(D, st, k + 1, fuel)

RECURSIVE preResolve_all(_, _, _, _)
\* A pre-resolution loop that resolves every descriptor, whatever its tag.
preResolve_all(D, st, k, fuel) ==
    IF k > Len(D) THEN Return(st, 0)
    ELSE LET r == resolveService(D, st, D[k], fuel)
         IN  IF r.status # "ok" THEN r ELSE preResolve_all(D, r, k + 1, fuel)

RECURSIVE preResolve(_, _, _, _)
\* for (const descriptor of descriptors.values()) if singleton: resolveService
preResolve(D, st, k, fuel) ==
    IF k > Len(D) THEN Return(st, 0)
    ELSE IF D[k].lifetime = "singleton"
         THEN LET r == resolveService(D, st, D[k], fuel)
              IN  IF r.status # "ok" THEN r ELSE preResolve(D, r, k + 1, fuel)
         ELSE preResolve(D, st, k + 1, fuel)

\* A new engine that copies nothing from its parent.
inheritedSingletons_none(parentSingle) == EmptyMap

\* The singleton cache a new engine starts from: a copy of its parent's.
inheritedSingletons(parentSingle) ==
    [k \in DOMAIN parentSingle |-> parentSingle[k]]

\* new ServiceProvider(descriptors, parent): parentSingle is the parent's
\* _singletonInstances, or the empty map when there is no parent.
constructor(D, parentSingle, h) ==
    preResolve(D, [single |-> inheritedSingletons(parentSingle),
                   scoped |-> EmptyMap, heap |-> h], 1, MaxDepth)

\* dispose() that clears the scoped cache of every engine.
dispose_all(engs, e) ==
    [i \in 1..Len(engs) |-> [engs[i] EXCEPT !.scoped = EmptyMap]]

\* dispose() that cascades to the scopes created from the engine.
dispose_cascade(engs, e) ==
    [i \in 1..Len(engs) |->
        IF i = e \/ engs[i].parent = e
        THEN [engs[i] EXCEPT !.scoped = EmptyMap] ELSE engs[i]]

\* dispose() that clears both caches of the engine.
dispose_everything(engs, e) ==
    [i \in 1..Len(engs) |->
        IF i = e THEN [engs[i] EXCEPT !.scoped = EmptyMap, !.single = EmptyMap]
        ELSE engs[i]]

\* dispose() that clears nothing.
dispose_nothing(engs, e) == engs

\* _scopedInstances.clear() on engine e; every other engine as it was.
dispose(engs, e) ==
    [i \in 1..Len(engs) |->
        IF i = e THEN [engs[i] EXCEPT !.scoped = EmptyMap] ELSE engs[i]]

-----------------------------------------------------------------------------
\* `impl` and `replaced` describe a registration call: the name of the
\* implementation or factory passed, and whether the identifier had a
\* descriptor already.
Call(op, e, id, status, inst) ==
    [op |-> op, e |-> e, id |-> id, status |-> status, inst |-> inst,
     marked |-> FALSE, impl |-> "", replaced |-> FALSE, about |-> ""]

\* The record of a call that ended as the resolution r did.
Outcome(op, e, id, r) ==
    [Call(op, e, id, r.status, r.inst) EXCEPT !.about = r.about]

NoCall == Call("none", 0, "", "ok", 0)

\* No call is remembered yet.
NoMark == [e |-> 0, id |-> "", inst |-> 0, disposed |-> FALSE]

Init ==
    /\ descriptors = <<>>
    /\ engines = <<>>
    /\ heap = <<>>
    /\ last = NoCall
    /\ mark = NoMark

\* The builder has no notion of being built: add() writes the Map at any time.
Register(op, id, impl, lifetime) ==
    /\ descriptors' = add(descriptors, id, impl, lifetime)
    /\ last' = [Call(op, 0, id, "ok", 0)
                  EXCEPT !.impl = impl.name,
                         !.replaced = HasDescriptor(descriptors, id)]
    /\ UNCHANGED <<engines, heap, mark>>

AddSingleton(id, impl) == Register("addSingleton", id, impl, "singleton")

AddScoped(id, impl) == Register("addScoped", id, impl, "scoped")

AddTransient(id, impl) == Register("addTransient", id, impl, "transient")

\* A collaborator that bypasses the builder and writes a descriptor with a
\* lifetime tag of its own into the Map it hands to new ServiceProvider(...).
SetInvalidDescriptor(id) ==
    /\ engines = <<>>
    /\ descriptors' = DescriptorsSet(descriptors,
                        [serviceType |-> id, implementationType |-> ObjectClass,
                         lifetime |-> InvalidLifetime, factory |-> NoFactory])
    /\ last' = Call("mapSet", 0, id, "ok", 0)
    /\ UNCHANGED <<engines, heap, mark>>

\* A client that writes the descriptor itself into the Map it hands to
\* new ServiceProvider(...), as the provider's tests do: the descriptor has
\* an implementation type and may have a factory next to it.
SetDescriptor(id, implementationType, lifetime, factory) ==
    /\ engines = <<>>
    /\ descriptors' = DescriptorsSet(descriptors,
                        [serviceType |-> id, implementationType |-> implementationType,
                         lifetime |-> lifetime, factory |-> factory])
    /\ last' = [Call("mapSet", 0, id, "ok", 0)
                  EXCEPT !.impl = IF factory # NoFactory THEN factory.name
                                  ELSE implementationType.name,
                         !.replaced = HasDescriptor(descriptors, id)]
    /\ UNCHANGED <<engines, heap, mark>>

\* build(): new ServiceProvider(this._descriptors).
Build ==
    /\ engines = <<>>
    /\ LET r == constructor(descriptors, EmptyMap, heap)
       IN  /\ heap' = r.heap
           /\ engines' = IF r.status = "ok"
                         THEN <<[single |-> r.single, scoped |-> r.scoped, parent |-> 0]>>
                         ELSE engines
           /\ last' = Outcome("build", 0, "", [r EXCEPT !.inst = 0])
    /\ UNCHANGED <<descriptors, mark>>

\* The engines after a resolution on engine e ended with r: both Maps the
\* resolution wrote are private fields of e.
storeCaches_shared(engs, e, r) ==
    [i \in 1..Len(engs) |->
        IF i = e THEN [engs[i] EXCEPT !.single = r.single, !.scoped = r.scoped]
        ELSE [engs[i] EXCEPT !.single = r.single]]

storeCaches(engs, e, r) ==
    [engs EXCEPT ![e].single = r.single, ![e].scoped = r.scoped]

GetService(e, id) ==
    /\ e \in 1..Len(engines)
    /\ LET r == getService(descriptors,
                           [single |-> engines[e].single,
                            scoped |-> engines[e].scoped, heap |-> heap],
                           id, MaxDepth)
       IN  /\ heap' = r.heap
           /\ engines' = storeCaches(engines, e, r)
           /\ \/ /\ last' = Outcome("getService", e, id, r)
                 /\ mark' = mark
              \/ /\ r.status = "ok"
                 /\ mark = NoMark
                 /\ last' = [Outcome("getService", e, id, r) EXCEPT !.marked = TRUE]
                 /\ mark' = [e |-> e, id |-> id, inst |-> r.inst, disposed |-> FALSE]
    /\ UNCHANGED descriptors

\* createScope() whose new engine starts from the scoped instances of its
\* parent.
CreateScope_inheritsScoped(e) ==
    /\ e \in 1..Len(engines)
    /\ LET r == constructor(descriptors, engines[e].single, heap)
       IN  /\ heap' = r.heap
           /\ engines' = IF r.status = "ok"
                         THEN Append(engines, [single |-> r.single,
                                               scoped |-> engines[e].scoped,
                                               parent |-> e])
                         ELSE engines
           /\ last' = Outcome("createScope", e, "", [r EXCEPT !.inst = 0])
    /\ UNCHANGED <<descriptors, mark>>

\* createScope(): new ServiceScope(new ServiceProvider(this._descriptors, this)).
CreateScope(e) ==
    /\ e \in 1..Len(engines)
    /\ LET r == constructor(descriptors, engines[e].single, heap)
       IN  /\ heap' = r.heap
           /\ engines' = IF r.status = "ok"
                         THEN Append(engines, [single |-> r.single,
                                               scoped |-> r.scoped, parent |-> e])
                         ELSE engines
           /\ last' = Outcome("createScope", e, "", [r EXCEPT !.inst = 0])
    /\ UNCHANGED <<descriptors, mark>>

\* The history notes that engine e was disposed after the remembered call.
Disposed(e) == IF mark.e = e THEN [mark EXCEPT !.disposed = TRUE] ELSE mark

Dispose(e) ==
    /\ e \in 1..Len(engines)
    /\ engines' = dispose(engines, e)
    /\ last' = Call("dispose", e, "", "ok", 0)
    /\ mark' = Disposed(e)
    /\ UNCHANGED <<descriptors, heap>>

\* A scope whose dispose() reaches the engine it was created from instead of
\* its own.
scopeDispose_ofParent(engs, e) == dispose(engs, engs[e].parent)

\* ServiceScope.dispose(): this.serviceProvider.dispose(), where
\* serviceProvider is the scope's one field, the engine e it was created with.
scopeDispose(engs, e) == dispose(engs, e)

ScopeDispose(e) ==
    /\ e \in 1..Len(engines)
    /\ engines[e].parent # 0
    /\ engines' = scopeDispose(engines, e)
    /\ last' = Call("scope.dispose", e, "", "ok", 0)
    /\ mark' = Disposed(e)
    /\ UNCHANGED <<descriptors, heap>>

-----------------------------------------------------------------------------
\* The client program of Spec registers one service, "A", whose dependency
\* "B" (when its class has one) is registered by nobody, builds the root
\* provider, creates scopes (of the root and of scopes) and asks the engines
\* for "A" and "B".

Bounded ==
    /\ Len(heap') <= MaxInstances
    /\ Len(engines') <= MaxEngines

\* The client of Spec registers before it builds, never after.
Building == engines = <<>>

Next ==
    \/ \E impl \in Impls : Building /\ AddSingleton("A", impl)
    \/ \E impl \in Impls : Building /\ AddScoped("A", impl)
    \/ \E impl \in Impls : Building /\ AddTransient("A", impl)
    \/ SetInvalidDescriptor("A")
    \/ Build /\ Bounded
    \/ \E e \in 1..MaxEngines, id \in ServiceIds : GetService(e, id) /\ Bounded
    \/ \E e \in 1..MaxEngines : CreateScope(e) /\ Bounded
    \/ \E e \in 1..MaxEngines : Dispose(e)
    \/ \E e \in 1..MaxEngines : ScopeDispose(e)

Spec == Init /\ [][Next]_vars

-----------------------------------------------------------------------------
\* The client program of SpecDeps registers a service "A" that depends on
\* service "B", and "B" itself as a plain class, in either order and with any
\* lifetimes, builds the root provider, creates scopes and asks for both.

DepBounded ==
    /\ Len(heap') <= DepMaxInstances
    /\ Len(engines') <= DepMaxEngines

NextDeps ==
    \/ \E impl \in DepImpls : Building /\ AddSingleton("A", impl)
    \/ \E impl \in DepImpls : Building /\ AddScoped("A", impl)
    \/ \E impl \in DepImpls : Building /\ AddTransient("A", impl)
    \/ Building /\ AddSingleton("B", ObjectClass)
    \/ Building /\ AddScoped("B", ObjectClass)
    \/ Building /\ AddTransient("B", ObjectClass)
    \/ Build /\ DepBounded
    \/ \E e \in 1..DepMaxEngines, id \in ServiceIds : GetService(e, id) /\ DepBounded
    \/ \E e \in 1..DepMaxEngines : CreateScope(e) /\ DepBounded
    \/ \E e \in 1..DepMaxEngines : Dispose(e)

SpecDeps == Init /\ [][NextDeps]_vars

-----------------------------------------------------------------------------
\* The client program of SpecLate keeps the builder after build() and goes on
\* registering "A" on it, with any lifetime, while it creates scopes, asks
\* the engines for "A" and "B" and disposes them.  Its history keeps the last call only.

\* A plain class, and a class whose dependency "B" nobody registers.
LateImpls == {ObjectClass, NeedsB}

LateBounded ==
    /\ Len(heap') <= LateMaxInstances
    /\ Len(engines') <= LateMaxEngines
    /\ mark' = NoMark

NextLate ==
    \/ \E impl \in LateImpls : AddSingleton("A", impl)
    \/ \E impl \in LateImpls : AddScoped("A", impl)
    \/ \E impl \in LateImpls : AddTransient("A", impl)
    \/ Build /\ LateBounded
    \/ \E e \in 1..LateMaxEngines, id \in ServiceIds : GetService(e, id) /\ LateBounded
    \/ \E e \in 1..LateMaxEngines : CreateScope(e) /\ LateBounded
    \/ \E e \in 1..LateMaxEngines : Dispose(e)

SpecLate == Init /\ [][NextLate]_vars

-----------------------------------------------------------------------------
\* The client program of SpecShare registers two services, "A" and "C", that
\* both depend on "B", "A" through its constructor parameter and "C" through
\* its constructor parameter or its factory, after "B" itself, which has any lifetime; it builds the root
\* once the three are registered, creates scopes and asks the engines for
\* the three.  Its history keeps the last call only.

ShareIds == {"A", "B", "C"}

ShareImpls == {NeedsB, FactoryB}

\* The client's n-th registration, before it builds.
Nth(n) == Building /\ Len(descriptors) = n - 1

ShareBounded ==
    /\ Len(heap') <= ShareMaxInstances
    /\ Len(engines') <= ShareMaxEngines
    /\ mark' = NoMark

NextShare ==
    \/ Nth(1) /\ AddSingleton("B", ObjectClass)
    \/ Nth(1) /\ AddScoped("B", ObjectClass)
    \/ Nth(1) /\ AddTransient("B", ObjectClass)
    \/ Nth(2) /\ AddScoped("A", NeedsB)
    \/ Nth(2) /\ AddTransient("A", NeedsB)
    \/ \E impl \in ShareImpls : Nth(3) /\ AddScoped("C", impl)
    \/ \E impl \in ShareImpls : Nth(3) /\ AddTransient("C", impl)
    \/ Len(descriptors) = 3 /\ Build /\ ShareBounded
    \/ \E e \in 1..ShareMaxEngines, id \in ShareIds : GetService(e, id) /\ ShareBounded
    \/ \E e \in 1..ShareMaxEngines : CreateScope(e) /\ ShareBounded

SpecShare == Init /\ [][NextShare]_vars

-----------------------------------------------------------------------------
\* The client program of SpecCycle registers "A" with a class that depends
\* on "B" or on "A" itself, and "B" with a plain class or one that depends on
\* "A", with any lifetimes and in any order; then it builds the root, creates
\* scopes and asks the engines for both.  Its history keeps the last call
\* only.

CycleImplsA == {NeedsB, NeedsA}

CycleImplsB == {ObjectClass, NeedsA}

CycleBounded ==
    /\ Len(heap') <= CycleMaxInstances
    /\ Len(engines') <= CycleMaxEngines
    /\ mark' = NoMark

NextCycle ==
    \/ \E impl \in CycleImplsA : Building /\ AddSingleton("A", impl)
    \/ \E impl \in CycleImplsA : Building /\ AddScoped("A", impl)
    \/ \E impl \in CycleImplsA : Building /\ AddTransient("A", impl)
    \/ \E impl \in CycleImplsB : Building /\ AddSingleton("B", impl)
    \/ \E impl \in CycleImplsB : Building /\ AddScoped("B", impl)
    \/ \E impl \in CycleImplsB : Building /\ AddTransient("B", impl)
    \/ Build /\ CycleBounded
    \/ \E e \in 1..CycleMaxEngines, id \in ServiceIds : GetService(e, id) /\ CycleBounded
    \/ \E e \in 1..CycleMaxEngines : CreateScope(e) /\ CycleBounded

SpecCycle == Init /\ [][NextCycle]_vars

-----------------------------------------------------------------------------
\* The client program of SpecRaw writes the descriptor of "A" by hand, with
\* an implementation type and with or without a factory next to it, may
\* register "B" as a plain class, may give either a lifetime tag that is not
\* one of the three, builds the root, creates scopes and asks
\* the engines for both.  Its history keeps the last call only.

RawTypes == {ObjectClass, NeedsB, NeedsBU}

RawFactories == {NoFactory, Factory0, FactoryB}

RawBounded ==
    /\ Len(heap') <= RawMaxInstances
    /\ Len(engines') <= RawMaxEngines
    /\ mark' = NoMark

NextRaw ==
    \/ \E t \in RawTypes, l \in Lifetimes, f \in RawFactories :
          SetDescriptor("A", t, l, f)
    \/ Building /\ AddScoped("B", ObjectClass)
    \/ Building /\ AddTransient("B", ObjectClass)
    \/ \E id \in ServiceIds : SetInvalidDescriptor(id)
    \/ Build /\ RawBounded
    \/ \E e \in 1..RawMaxEngines, id \in ServiceIds : GetService(e, id) /\ RawBounded
    \/ \E e \in 1..RawMaxEngines : CreateScope(e) /\ RawBounded

SpecRaw == Init /\ [][NextRaw]_vars

-----------------------------------------------------------------------------
\* Vocabulary of the properties.

\* The lifetime tag the registry holds for id ("none" without a descriptor).
LifetimeOf(id) ==
    IF HasDescriptor(descriptors, id)
    THEN DescriptorOf(descriptors, id).lifetime ELSE "none"

\* The last call was a getService that returned an instance.
Got == last.op = "getService" /\ last.status = "ok"

\* The last call returned an instance and an earlier getService call for the
\* same identifier is remembered in `mark`.  Any earlier successful call can
\* be the remembered one, so a property of (mark, last) is a property of
\* every pair of successful getService calls.
GotAgain == Got /\ ~last.marked /\ mark # NoMark /\ mark.id = last.id

DisposeOps == {"dispose", "scope.dispose"}

Parent(e) == engines[e].parent

\* e1 and e2 are distinct scopes created from the same engine.
Siblings(e1, e2) == e1 # e2 /\ Parent(e1) # 0 /\ Parent(e1) = Parent(e2)

\* The caches of engine e and the heap, as a resolution on e starts from them.
EngineState(e) ==
    [single |-> engines[e].single, scoped |-> engines[e].scoped, heap |-> heap]

CreateOps == {"build", "createScope"}

\* The last call created an engine: the newest one.
Created == last.op \in CreateOps /\ last.status = "ok"

\* The identifiers whose descriptor has lifetime singleton.
SingletonIds == {id \in ServiceIds : LifetimeOf(id) = "singleton"}

\* The same for engine e once the step is taken.
EngineStateAfter(e) ==
    [single |-> engines'[e].single, scoped |-> engines'[e].scoped, heap |-> heap']

\* The step is a getService call that fails.
FailedGet == last'.op = "getService" /\ last'.status # "ok"

\* Every entry of cache `old` is in cache `new` with the same instance.
Keeps(old, new) ==
    \A k \in DOMAIN old : k \in DOMAIN new /\ new[k] = old[k]

\* The caches the engine created in this step starts from: its parent's
\* singletons (none for the root) and no scoped instance.
CreationState ==
    [single |-> IF last'.op = "build" THEN EmptyMap
                ELSE inheritedSingletons(engines[last'.e].single),
     scoped |-> EmptyMap, heap |-> heap]

AddOps == {"addSingleton", "addScoped", "addTransient"}

\* this._descriptors of a built engine: the Map object the builder goes on
\* writing, handed over by reference.
EngineDescriptors == descriptors

\* The lifetime each registration method passes to add().
LifetimeFor(op) ==
    CASE op = "addSingleton" -> "singleton"
      [] op = "addScoped" -> "scoped"
      [] op = "addTransient" -> "transient"

\* The name of what a descriptor constructs with: its factory when it has
\* one, its implementation type otherwise.
ImplName(d) ==
    IF d.factory # NoFactory THEN d.factory.name ELSE d.implementationType.name

\* The parameters of the class a descriptor constructs (none with a factory).
ParamsOfClass(d) ==
    IF d.factory # NoFactory THEN <<>> ELSE d.implementationType.uses

\* The positions of the parameters that name an identifier without descriptor.
MissingAt(d) ==
    {i \in 1..Len(ParamsOfClass(d)) : ~HasDescriptor(descriptors, ParamsOfClass(d)[i])}

\* The first parameter of d's class that names an identifier without
\* descriptor.
FirstMissing(d) ==
    ParamsOfClass(d)[CHOOSE i \in MissingAt(d) : \A j \in MissingAt(d) : i <= j]

\* The step is a getService call that returned an instance it constructed.
Constructed ==
    /\ last'.op = "getService" /\ last'.status = "ok"
    /\ last'.inst > Len(heap)

\* Engine e held an instance for id before the step and the step kept it, or
\* held none and the step stored one it constructed.
TakenOrStored(cache, e, id) ==
    /\ id \in DOMAIN engines'[e][cache]
    /\ IF id \in DOMAIN engines[e][cache]
       THEN engines'[e][cache][id] = engines[e][cache][id]
       ELSE engines'[e][cache][id] > Len(heap)

\* No engine but e holds instance i in a cache, before or after the step.
OnlyOn(e, i) ==
    \A x \in 1..Len(engines) : \A id \in ShareIds :
        x # e =>
          /\ id \in DOMAIN engines[x].scoped => engines[x].scoped[id] # i
          /\ id \in DOMAIN engines'[x].scoped => engines'[x].scoped[id] # i

\* The identifiers a descriptor's factory or class asks the engine for.
UsesOf(d) ==
    IF d.factory # NoFactory THEN d.factory.uses ELSE d.implementationType.uses

\* The instances constructed in the step.
NewInstances == (Len(heap) + 1)..Len(heap')

\* The dependency graph of the registry: x's class or factory asks for y.
DependsOn(x, y) ==
    /\ HasDescriptor(descriptors, x)
    /\ \E k \in 1..Len(UsesOf(DescriptorOf(descriptors, x))) :
          UsesOf(DescriptorOf(descriptors, x))[k] = y

RECURSIVE Reaches(_, _, _)
\* y is reached from x by a chain of at least one and at most n dependencies.
Reaches(x, y, n) ==
    /\ n > 0
    /\ \/ DependsOn(x, y)
       \/ \E z \in ServiceIds : DependsOn(x, z) /\ Reaches(z, y, n - 1)

OnCycle(id) == Reaches(id, id, Cardinality(ServiceIds))

Acyclic == \A id \in ServiceIds : ~OnCycle(id)

Max(S) == CHOOSE m \in S : \A x \in S : x <= m

RECURSIVE ChainFrom(_, _)
\* The longest chain of dependencies from id, cut after n.
ChainFrom(id, n) ==
    IF n = 0 \/ ~HasDescriptor(descriptors, id)
         \/ UsesOf(DescriptorOf(descriptors, id)) = <<>>
    THEN 0
    ELSE 1 + Max({ChainFrom(UsesOf(DescriptorOf(descriptors, id))[k], n - 1) :
                    k \in 1..Len(UsesOf(DescriptorOf(descriptors, id)))})

\* The depth of the dependency graph below id, when the graph is acyclic.
GraphDepth(id) == ChainFrom(id, Cardinality(ServiceIds) + 1)

\* The caches an engine created now would start from: those of the root-to-be
\* before build(), those of a scope of any engine after it.
CreationStates ==
    IF engines = <<>>
    THEN {[single |-> EmptyMap, scoped |-> EmptyMap, heap |-> heap]}
    ELSE {[single |-> inheritedSingletons(engines[e].single),
           scoped |-> EmptyMap, heap |-> heap] : e \in 1..Len(engines)}

Outcomes == {"ok", "NotRegistered"}

\* C1: two successful getService calls for a singleton identifier on the same
\* engine return the same instance, whatever happened on it between them.
C1_SingletonSameOnEngine ==
    (GotAgain /\ LifetimeOf(last.id) = "singleton" /\ mark.e = last.e)
        => last.inst = mark.inst

\* C1 witness: a singleton returned twice by one engine, which was disposed
\* and had a scope created from it between the two calls.
C1_Witness ==
    /\ GotAgain /\ LifetimeOf(last.id) = "singleton" /\ mark.e = last.e
    /\ mark.disposed
    /\ \E e \in 1..Len(engines) : Parent(e) = last.e

\* C2: for a singleton identifier, a scope returns the instance its parent
\* engine returns, and two scopes of one engine return the same instance.
C2_SingletonSharedWithScopes ==
    (GotAgain /\ LifetimeOf(last.id) = "singleton"
       /\ (Parent(last.e) = mark.e \/ Parent(mark.e) = last.e
             \/ Siblings(mark.e, last.e)))
        => last.inst = mark.inst

\* C2 witness: the parent returned the singleton, then a scope created from
\* it returned it, while a second scope of the same parent exists.
C2_Witness ==
    /\ GotAgain /\ LifetimeOf(last.id) = "singleton"
    /\ Parent(last.e) = mark.e
    /\ \E e \in 1..Len(engines) : Siblings(e, last.e)

\* C3: two getService calls for a scoped identifier on the same engine with
\* no dispose() of that engine between them return the same instance.
C3_ScopedSameWithinScope ==
    (GotAgain /\ LifetimeOf(last.id) = "scoped" /\ mark.e = last.e
       /\ ~mark.disposed)
        => last.inst = mark.inst

\* C3 witness: a scope returned a scoped service twice, undisposed.
C3_Witness ==
    /\ GotAgain /\ LifetimeOf(last.id) = "scoped" /\ mark.e = last.e
    /\ ~mark.disposed
    /\ Parent(last.e) # 0

\* C4: no instance is held in the scoped caches of two different engines, and
\* two different engines never return the same instance for a scoped identifier.
C4_ScopedDistinctAcrossScopes ==
    /\ \A e1, e2 \in 1..Len(engines) :
         e1 # e2 =>
           \A k1 \in DOMAIN engines[e1].scoped, k2 \in DOMAIN engines[e2].scoped :
             engines[e1].scoped[k1] # engines[e2].scoped[k2]
    /\ (GotAgain /\ LifetimeOf(last.id) = "scoped" /\ mark.e # last.e)
           => last.inst # mark.inst

\* C4 witness: two scopes of one engine have each returned the scoped service
\* and both hold it in their scoped caches.
C4_Witness ==
    /\ GotAgain /\ LifetimeOf(last.id) = "scoped"
    /\ Siblings(mark.e, last.e)
    /\ last.id \in DOMAIN engines[mark.e].scoped
    /\ last.id \in DOMAIN engines[last.e].scoped

\* C5: a successful getService for a transient identifier returns an instance
\* distinct from the one any earlier getService call for it returned, on any
\* engine.
C5_TransientAlwaysNew ==
    (GotAgain /\ LifetimeOf(last.id) = "transient") => last.inst # mark.inst

\* C5 witness: one scope returned the transient service twice.
C5_Witness ==
    /\ GotAgain /\ LifetimeOf(last.id) = "transient"
    /\ mark.e = last.e /\ Parent(last.e) # 0

\* C6: dispose() leaves the engine's scoped cache empty, and a scoped
\* identifier resolved before a dispose() of the engine and again after it
\* yields an instance distinct from the first.
C6_DisposeClearsScoped ==
    /\ last.op \in DisposeOps => engines[last.e].scoped = EmptyMap
    /\ (GotAgain /\ LifetimeOf(last.id) = "scoped" /\ mark.e = last.e
          /\ mark.disposed)
           => last.inst # mark.inst

\* C6 witness: the root returned a scoped service, was disposed, and returned
\* the service again.
C6_Witness ==
    /\ GotAgain /\ LifetimeOf(last.id) = "scoped" /\ mark.e = last.e
    /\ mark.disposed /\ Parent(last.e) = 0

\* C7: a dispose() of a scope leaves the scoped cache of its parent engine and
\* of every sibling scope as it was.
C7_DisposeScopeFrame ==
    [][(last'.op \in DisposeOps /\ Parent(last'.e) # 0)
         => \A e \in 1..Len(engines) :
              (e = Parent(last'.e) \/ Siblings(e, last'.e))
                 => engines'[e].scoped = engines[e].scoped]_vars

\* C7 witness: a scope was just disposed while its parent and a sibling scope
\* each hold a scoped instance.
C7_Witness ==
    /\ last.op \in DisposeOps /\ Parent(last.e) # 0
    /\ engines[Parent(last.e)].scoped # EmptyMap
    /\ \E e \in 1..Len(engines) : Siblings(e, last.e) /\ engines[e].scoped # EmptyMap

\* C8: a dispose() of an engine leaves the scoped cache of every scope created
\* from it as it was.
C8_DisposeParentFrame ==
    [][last'.op \in DisposeOps
         => \A e \in 1..Len(engines) :
              Parent(e) = last'.e => engines'[e].scoped = engines[e].scoped]_vars

\* C8 witness: an engine was just disposed while a scope created from it holds
\* a scoped instance.
C8_Witness ==
    /\ last.op \in DisposeOps
    /\ \E e \in 1..Len(engines) : Parent(e) = last.e /\ engines[e].scoped # EmptyMap

\* C9: getService for an identifier without a descriptor fails as "not
\* registered" and leaves both caches of the engine as they were.
C9_UnregisteredFails ==
    [][(last'.op = "getService" /\ ~HasDescriptor(descriptors, last'.id))
         => /\ last'.status = "NotRegistered"
            /\ engines'[last'.e].single = engines[last'.e].single
            /\ engines'[last'.e].scoped = engines[last'.e].scoped]_vars

\* C9 witness: a scope that holds cached instances was asked for an
\* unregistered identifier and failed.
C9_Witness ==
    /\ last.op = "getService" /\ ~HasDescriptor(descriptors, last.id)
    /\ last.status = "NotRegistered"
    /\ Parent(last.e) # 0
    /\ engines[last.e].single # EmptyMap \/ engines[last.e].scoped # EmptyMap

\* C10: getService for an identifier whose descriptor has an unrecognized
\* lifetime tag fails as "unknown lifetime", constructs no instance and leaves
\* both caches of the engine as they were.
C10_UnknownLifetimeFails ==
    [][(last'.op = "getService" /\ HasDescriptor(descriptors, last'.id)
          /\ LifetimeOf(last'.id) \notin Lifetimes)
         => /\ last'.status = "UnknownLifetime"
            /\ heap' = heap
            /\ engines'[last'.e].single = engines[last'.e].single
            /\ engines'[last'.e].scoped = engines[last'.e].scoped]_vars

\* C10 witness: an engine was asked for a service registered with an
\* unrecognized lifetime tag and failed.
C10_Witness ==
    /\ last.op = "getService" /\ HasDescriptor(descriptors, last.id)
    /\ LifetimeOf(last.id) \notin Lifetimes
    /\ last.status = "UnknownLifetime"

\* C11: when "A" and the "B" it depends on are both singletons, every
\* successful getService("A") returns the instance an earlier one returned,
\* and the dependency that instance holds is the instance getService("B")
\* returns on the engine that was asked.
C11_SingletonDependsOnSingleton ==
    (Got /\ last.id = "A" /\ LifetimeOf("A") = "singleton"
         /\ LifetimeOf("B") = "singleton")
        => /\ GotAgain => last.inst = mark.inst
           /\ heap[last.inst].deps =
                <<getService(descriptors, EngineState(last.e), "B", MaxDepth).inst>>

\* C11 witness: a singleton built from its constructor parameter "B" was
\* returned by the root and then by a scope.
C11_Witness ==
    /\ GotAgain /\ last.id = "A" /\ LifetimeOf("A") = "singleton"
    /\ LifetimeOf("B") = "singleton"
    /\ heap[last.inst].class = "NeedsB" /\ Len(heap[last.inst].deps) = 1
    /\ mark.e = 1 /\ Parent(last.e) = 1

\* C12: when build() or createScope() has returned an engine, that engine's
\* singleton cache holds an instance for every identifier registered as a
\* singleton.
C12_CreatedEngineHoldsSingletons ==
    Created =>
        \A id \in SingletonIds :
            /\ id \in DOMAIN engines[Len(engines)].single
            /\ engines[Len(engines)].single[id] \in 1..Len(heap)

\* C12 witness: build() returned a root for a registry with two singletons,
\* one depending on the other.
C12_Witness ==
    /\ Created /\ last.op = "build"
    /\ SingletonIds = {"A", "B"}
    /\ DOMAIN engines[1].single = {"A", "B"}

\* C13: a successful createScope() on engine e gives the new engine a
\* singleton cache holding every entry of e's cache at that instant and
\* leaves e's cache as it was, even when the new engine adds entries of its
\* own; after that a getService call writes the singleton cache of the
\* engine it was called on only: an entry the parent adds never appears in a
\* scope's cache, nor one a scope adds in its parent's.  createScope() makes
\* no registry of its own and leaves the one there is as it was.
C13_ScopeCopiesSingletonCache ==
    [][/\ (last'.op = "createScope" /\ last'.status = "ok") =>
            LET p == last'.e
                c == Len(engines')
            IN  /\ c = Len(engines) + 1
                /\ \A id \in DOMAIN engines[p].single :
                      /\ id \in DOMAIN engines'[c].single
                      /\ engines'[c].single[id] = engines[p].single[id]
                /\ engines'[p].single = engines[p].single
                /\ descriptors' = descriptors
       /\ last'.op = "getService" =>
            \A i \in 1..Len(engines) :
                i # last'.e => engines'[i].single = engines[i].single
      ]_vars

\* C13 witness: after createScope() a singleton was registered and the parent
\* resolved it; the parent's cache has the entry and the scope's has not.
C13_Witness ==
    /\ Got /\ last.e = 1 /\ Len(engines) = 2 /\ Parent(2) = 1
    /\ "A" \in DOMAIN engines[1].single
    /\ "A" \notin DOMAIN engines[2].single

\* C14: with the registry left alone after build(), every engine, whatever
\* chain of createScope() calls made it, resolves every singleton identifier
\* to the instance the root resolves it to.
C14_DescendantsShareRootSingletons ==
    \A e \in 1..Len(engines), id \in SingletonIds :
        LET r == getService(descriptors, EngineState(e), id, MaxDepth)
            root == getService(descriptors, EngineState(1), id, MaxDepth)
        IN  /\ r.status = "ok" /\ root.status = "ok"
            /\ r.inst = root.inst

\* C14 witness: a scope of a scope of the root returned the singleton the
\* root had returned.
C14_Witness ==
    /\ GotAgain /\ LifetimeOf(last.id) = "singleton"
    /\ mark.e = 1
    /\ Parent(last.e) # 0 /\ Parent(Parent(last.e)) = 1
    /\ last.inst = mark.inst

\* C15: a dispose() on engine e leaves e's singleton cache and the registry
\* as they were, so every singleton identifier resolves on e to the instance
\* it resolved to before, and a second dispose() changes nothing more.
C15_DisposeIdempotentOwnScopedOnly ==
    [][last'.op \in DisposeOps =>
          LET e == last'.e
          IN  /\ engines'[e].single = engines[e].single
              /\ engines'[e].scoped = EmptyMap
              /\ descriptors' = descriptors
              /\ dispose(engines', e) = engines'
              /\ \A id \in SingletonIds :
                    getService(descriptors', EngineStateAfter(e), id, MaxDepth).inst
                      = getService(descriptors, EngineState(e), id, MaxDepth).inst
      ]_vars

\* C15 witness: an engine holding a singleton "B" was disposed after it had
\* returned a scoped "A" built from that "B".
C15_Witness ==
    /\ last.op \in DisposeOps
    /\ mark.e = last.e /\ mark.disposed /\ mark.id = "A"
    /\ LifetimeOf("A") = "scoped" /\ LifetimeOf("B") = "singleton"
    /\ "B" \in DOMAIN engines[last.e].single
    /\ engines[last.e].scoped = EmptyMap

\* C16 as claimed: a getService call that fails leaves both caches of its
\* engine exactly as they were before the call.
C16_FailedCallLeavesCachesUnchanged ==
    [][FailedGet =>
          /\ engines'[last'.e].single = engines[last'.e].single
          /\ engines'[last'.e].scoped = engines[last'.e].scoped
      ]_vars

\* C16 as amended: a getService(id) call that fails removes no entry and
\* replaces none, and stores none for id; what it adds are the instances,
\* new in this call, of identifiers registered with the lifetime of the
\* cache they are added to.
C16_FailedCallKeepsResolvedDependencies ==
    [][FailedGet =>
          LET e == last'.e
          IN  /\ Keeps(engines[e].single, engines'[e].single)
              /\ Keeps(engines[e].scoped, engines'[e].scoped)
              /\ \A k \in DOMAIN engines'[e].single \ DOMAIN engines[e].single :
                    /\ k # last'.id /\ LifetimeOf(k) = "singleton"
                    /\ engines'[e].single[k] \in (Len(heap) + 1)..Len(heap')
              /\ \A k \in DOMAIN engines'[e].scoped \ DOMAIN engines[e].scoped :
                    /\ k # last'.id /\ LifetimeOf(k) = "scoped"
                    /\ engines'[e].scoped[k] \in (Len(heap) + 1)..Len(heap')
      ]_vars

\* C16 witness: getService("A") failed on the unregistered second parameter
\* of A's class, and the scoped "B" resolved for the first parameter is in
\* the engine's scoped cache.
C16_Witness ==
    /\ last.op = "getService" /\ last.id = "A" /\ last.status = "NotRegistered"
    /\ HasDescriptor(descriptors, "A")
    /\ DescriptorOf(descriptors, "A").implementationType = NeedsBU
    /\ LifetimeOf("B") = "scoped"
    /\ "B" \in DOMAIN engines[last.e].scoped
    /\ "A" \notin DOMAIN engines[last.e].scoped

\* C17: when getService(id) fails for a registered id, id is in neither
\* cache of the engine afterwards, and a getService(id) made next fails in
\* the same way after constructing id's transient dependency once more.
C17_FailedIdNotCachedAndRetried ==
    [][(FailedGet /\ HasDescriptor(descriptors, last'.id)) =>
          LET e == last'.e
              again == getService(descriptors', EngineStateAfter(e), last'.id, MaxDepth)
          IN  /\ last'.id \notin DOMAIN engines'[e].single
              /\ last'.id \notin DOMAIN engines'[e].scoped
              /\ again.status = last'.status
              /\ (DescriptorOf(descriptors, last'.id).implementationType = NeedsBU
                    /\ LifetimeOf("B") = "transient")
                   => Len(again.heap) = Len(heap') + 1
      ]_vars

\* C17 witness: getService("A") failed twice in a row, and each attempt
\* constructed the transient "B" of its first parameter.
C17_Witness ==
    /\ last.op = "getService" /\ last.id = "A" /\ last.status # "ok"
    /\ HasDescriptor(descriptors, "A")
    /\ DescriptorOf(descriptors, "A").implementationType = NeedsBU
    /\ LifetimeOf("A") = "scoped" /\ LifetimeOf("B") = "transient"
    /\ Len(heap) = 2 /\ mark = NoMark
    /\ engines[last.e].scoped = EmptyMap

\* C18: in a build() or createScope() step, if constructing some singleton
\* identifier fails then the call ends with that kind of failure and the
\* engines are those there were before; and when the call returns an engine,
\* getService succeeds on it for every singleton identifier.
C18_SingletonFailureFailsCreation ==
    [][last'.op \in CreateOps =>
          /\ (\E id \in SingletonIds :
                 getService(descriptors, CreationState, id, MaxDepth).status # "ok")
               => last'.status # "ok"
          /\ last'.status # "ok" => engines' = engines
          /\ last'.status = "ok" =>
               /\ Len(engines') = Len(engines) + 1
               /\ \A id \in SingletonIds :
                     getService(descriptors', EngineStateAfter(Len(engines')),
                                id, MaxDepth).status = "ok"
      ]_vars

\* C18 witness: createScope() failed on a singleton, registered after
\* build(), whose constructor parameter has no descriptor; the root is still
\* the only engine.
C18_Witness ==
    /\ last.op = "createScope" /\ last.status = "NotRegistered"
    /\ Len(engines) = 1
    /\ LifetimeOf("A") = "singleton"
    /\ DescriptorOf(descriptors, "A").implementationType = NeedsB
    /\ "A" \notin DOMAIN engines[1].single

\* C19 as claimed: an addSingleton, addScoped or addTransient call made once
\* the root exists changes neither the descriptors an engine resolves with
\* nor, for any engine and identifier, whether getService succeeds.
C19_BuildFreezesRegistry ==
    [][(engines # <<>> /\ last'.op \in AddOps) =>
          /\ EngineDescriptors' = EngineDescriptors
          /\ \A e \in 1..Len(engines), id \in ServiceIds :
                getService(EngineDescriptors', EngineStateAfter(e), id, MaxDepth).status
                  = getService(EngineDescriptors, EngineState(e), id, MaxDepth).status
      ]_vars

C21_MissingDependencyErrorPropagates ==
    [][(last'.op = "getService" /\ HasDescriptor(descriptors, last'.id)
          /\ LifetimeOf(last'.id) \in Lifetimes
          /\ MissingAt(DescriptorOf(descriptors, last'.id)) # {}) =>
          LET e == last'.e
              m == FirstMissing(DescriptorOf(descriptors, last'.id))
              inner == getService(descriptors, EngineState(e), m, MaxDepth)
          IN  /\ last'.status = "NotRegistered"
              /\ last'.about = m
              /\ inner.status = last'.status /\ inner.about = last'.about
              /\ last'.inst = 0
              /\ last'.id \notin DOMAIN engines'[e].single
              /\ last'.id \notin DOMAIN engines'[e].scoped
      ]_vars

\* C21 witness: getService("A") on a scope failed with the error about "U",
\* the second parameter of A's class; its first parameter "B" is a singleton.
C21_Witness ==
    /\ last.op = "getService" /\ last.id = "A" /\ Parent(last.e) = 1
    /\ last.status = "NotRegistered" /\ last.about = Unregistered
    /\ DescriptorOf(descriptors, "A").implementationType = NeedsBU
    /\ LifetimeOf("A") = "transient" /\ LifetimeOf("B") = "singleton"

\* C22: when getService on engine e constructs a class whose constructor
\* parameter is the scoped "B", the instance receives the "B" of e's scoped
\* cache: the one e held, or a new one that the call stores there; no other
\* engine holds that "B" and no other engine's caches change.  So it is the
\* "B" held by every other service with that parameter in e's scoped cache.
C22_ScopedDependencyFromOwnScope ==
    [][(Constructed /\ LifetimeOf("B") = "scoped"
          /\ DescriptorOf(descriptors, last'.id).implementationType = NeedsB
          /\ DescriptorOf(descriptors, last'.id).factory = NoFactory) =>
          LET e == last'.e
              b == engines'[e].scoped["B"]
          IN  /\ TakenOrStored("scoped", e, "B")
              /\ heap'[last'.inst].deps = <<b>>
              /\ OnlyOn(e, b)
              /\ \A x \in 1..Len(engines) : x # e => engines'[x] = engines[x]
              /\ \A id \in DOMAIN engines[e].scoped :
                    heap[engines[e].scoped[id]].class = "NeedsB"
                      => heap[engines[e].scoped[id]].deps = <<b>>
      ]_vars

\* C22 witness: on a scope whose parent holds a scoped "B" of its own, "A"
\* and "C", two classes with the parameter "B", were resolved and hold the
\* scope's "B".
C22_Witness ==
    /\ Got /\ last.id = "C" /\ Parent(last.e) = 1
    /\ DOMAIN engines[last.e].scoped = {"A", "B", "C"}
    /\ "B" \in DOMAIN engines[1].scoped
    /\ heap[engines[last.e].scoped["A"]].class = "NeedsB"
    /\ heap[last.inst].class = "NeedsB"
    /\ heap[last.inst].deps = heap[engines[last.e].scoped["A"]].deps
    /\ heap[last.inst].deps = <<engines[last.e].scoped["B"]>>
    /\ engines[last.e].scoped["B"] # engines[1].scoped["B"]

\* C23: when getService on engine e runs a factory that asks the engine it
\* is given for "B", the "B" the factory gets is the one of e's caches: a
\* singleton "B" is e's singleton entry, a scoped "B" is taken from or
\* stored in e's scoped cache and held by no other engine, a transient "B"
\* is new; and the caches of every other engine stay as they were.
C23_FactoryGetsResolvingEngine ==
    [][(Constructed /\ DescriptorOf(descriptors, last'.id).factory = FactoryB) =>
          LET e == last'.e
              got == heap'[last'.inst].deps
          IN  /\ Len(got) = 1
              /\ LifetimeOf("B") = "singleton" =>
                    /\ TakenOrStored("single", e, "B")
                    /\ got[1] = engines'[e].single["B"]
              /\ LifetimeOf("B") = "scoped" =>
                    /\ TakenOrStored("scoped", e, "B")
                    /\ got[1] = engines'[e].scoped["B"]
                    /\ OnlyOn(e, got[1])
              /\ LifetimeOf("B") = "transient" => got[1] > Len(heap)
              /\ \A x \in 1..Len(engines) : x # e => engines'[x] = engines[x]
      ]_vars

\* C23 witness: a factory run for getService("C") on a scope got the scoped
\* "B" that the scope already held, while the parent holds another.
C23_Witness ==
    /\ Got /\ last.id = "C" /\ Parent(last.e) = 1
    /\ heap[last.inst].class = "FromB"
    /\ LifetimeOf("B") = "scoped"
    /\ "B" \in DOMAIN engines[1].scoped
    /\ heap[last.inst].deps = <<engines[last.e].scoped["B"]>>
    /\ engines[last.e].scoped["B"] < last.inst
    /\ engines[last.e].scoped["B"] # engines[1].scoped["B"]

\* C24: when build() returns the root, each singleton identifier has exactly
\* one instance among those the call constructed, that instance is its cache
\* entry, and each singleton dependency an entry holds is itself the cache
\* entry of the dependency, whether the dependent or the dependency comes
\* first in the registry.
C24_PreResolutionConstructsOnce ==
    [][(last'.op = "build" /\ last'.status = "ok") =>
          \A id \in SingletonIds :
              LET d == DescriptorOf(descriptors, id)
                  cache == engines'[1].single
              IN  /\ Cardinality({i \in NewInstances :
                                     heap'[i].class = ImplName(d)}) = 1
                  /\ cache[id] \in NewInstances
                  /\ heap'[cache[id]].class = ImplName(d)
                  /\ \A k \in 1..Len(UsesOf(d)) :
                        UsesOf(d)[k] \in SingletonIds
                          => heap'[cache[id]].deps[k] = cache[UsesOf(d)[k]]
      ]_vars

\* C24 witness: the root was built from a registry in which the singleton
\* "A" comes before the singleton "B" it depends on.
C24_Witness ==
    /\ Created /\ last.op = "build"
    /\ Len(descriptors) = 2 /\ descriptors[1].serviceType = "A"
    /\ SingletonIds = {"A", "B"}
    /\ heap[engines[1].single["A"]].deps = <<engines[1].single["B"]>>
    /\ engines[1].single["B"] < engines[1].single["A"]

\* C25: a getService, createScope or dispose call on engine e leaves both
\* caches of every other engine there is as they were, and createScope
\* leaves those of e too.
C25_CachesChangedByOwnEngineOnly ==
    [][last'.op \in {"getService", "createScope"} \cup DisposeOps =>
          /\ \A x \in 1..Len(engines) :
                x # last'.e =>
                  /\ engines'[x].single = engines[x].single
                  /\ engines'[x].scoped = engines[x].scoped
          /\ last'.op = "createScope" =>
                /\ engines'[last'.e].single = engines[last'.e].single
                /\ engines'[last'.e].scoped = engines[last'.e].scoped
          /\ Len(engines') >= Len(engines)
      ]_vars

\* C25 witness: a scope resolved a singleton registered after build() and
\* stored it, while its parent, which holds a scoped instance, has no
\* singleton entry.
C25_Witness ==
    /\ Got /\ Parent(last.e) = 1
    /\ LifetimeOf("A") = "singleton"
    /\ "A" \in DOMAIN engines[last.e].single
    /\ engines[1].single = EmptyMap
    /\ engines[1].scoped # EmptyMap

\* C26: a successful getService for a transient identifier whose class or
\* factory asks for nothing returns an instance constructed in the call and
\* leaves both caches of every engine as they were, also when a cache holds
\* an entry for the identifier from an earlier registration.
C26_TransientTouchesNoCache ==
    [][(last'.op = "getService" /\ last'.status = "ok"
          /\ LifetimeOf(last'.id) = "transient"
          /\ UsesOf(DescriptorOf(descriptors, last'.id)) = <<>>) =>
          /\ engines' = engines
          /\ last'.inst = Len(heap) + 1
          /\ heap' = Append(heap, [class |-> ImplName(DescriptorOf(descriptors, last'.id)),
                                   deps |-> <<>>])
      ]_vars

\* C26 witness: "A" was returned as a transient by an engine whose scoped
\* cache still holds the instance from the time "A" was registered as scoped;
\* the returned instance is another one.
C26_Witness ==
    /\ Got /\ last.id = "A" /\ LifetimeOf("A") = "transient"
    /\ "A" \in DOMAIN engines[last.e].scoped
    /\ engines[last.e].scoped["A"] # last.inst
    /\ last.inst = Len(heap)

\* C27: the engine a successful createScope() adds has an empty scoped
\* cache, whatever its parent holds, and a getService made on it next for a
\* scoped identifier returns an instance constructed by that call, which no
\* engine held.
C27_NewScopeStartsEmpty ==
    [][(last'.op = "createScope" /\ last'.status = "ok") =>
          LET c == Len(engines')
          IN  /\ engines'[c].scoped = EmptyMap
              /\ engines'[c].parent = last'.e
              /\ \A id \in ServiceIds :
                    LET r == getService(descriptors', EngineStateAfter(c), id, MaxDepth)
                    IN  (LifetimeOf(id) = "scoped" /\ r.status = "ok") =>
                          /\ r.inst > Len(heap')
                          /\ r.scoped[id] = r.inst
                          /\ \A x \in 1..Len(engines) :
                                id \in DOMAIN engines[x].scoped
                                  => engines[x].scoped[id] # r.inst
      ]_vars

\* C27 witness: createScope() returned a scope with an empty scoped cache
\* from a parent, itself a scope, that holds a scoped "A".
C27_Witness ==
    /\ Created /\ last.op = "createScope" /\ Parent(last.e) = 1
    /\ "A" \in DOMAIN engines[last.e].scoped
    /\ engines[Len(engines)].parent = last.e
    /\ engines[Len(engines)].scoped = EmptyMap

\* C28: while no identifier of the registry depends on itself, no call ends
\* by running out of call stack; a getService for id gives, with the call
\* depth limited to the depth of the dependency graph below id, the instance
\* or the error it gives with more, and creating an engine succeeds or fails
\* within the depth of the deepest identifier.
C28_AcyclicResolutionBounded ==
    Acyclic =>
        /\ last.status \in Outcomes
        /\ \A e \in 1..Len(engines), id \in ServiceIds :
              LET r == getService(descriptors, EngineState(e), id, GraphDepth(id))
              IN  /\ r.status \in Outcomes
                  /\ r = getService(descriptors, EngineState(e), id, MaxDepth)
        /\ \A st \in CreationStates :
              LET r == preResolve(descriptors, st, 1,
                                  Max({GraphDepth(id) : id \in ServiceIds}))
              IN  /\ r.status \in Outcomes
                  /\ r = preResolve(descriptors, st, 1, MaxDepth)

\* C28 witness: "A", whose class takes "B", was returned with a "B" in it
\* from a registry without circular dependency.
C28_Witness ==
    /\ Acyclic /\ Got /\ last.id = "A"
    /\ GraphDepth("A") = 1 /\ GraphDepth("B") = 0
    /\ Len(heap[last.inst].deps) = 1
    /\ heap[heap[last.inst].deps[1]].class = "Object"

\* C29: an identifier that depends on itself, directly or through another,
\* is in no cache of any engine, and its resolution, from the caches of any
\* engine there is or could be created, uses up whatever call depth it is
\* given and ends in the engine's stack-exhaustion error, not in an instance
\* and not in an error of the container; when it is a singleton, build()
\* fails that way and no engine exists.
C29_CircularSingletonNeverCached ==
    \A id \in ServiceIds :
        OnCycle(id) =>
            /\ \A e \in 1..Len(engines) :
                  /\ id \notin DOMAIN engines[e].single
                  /\ id \notin DOMAIN engines[e].scoped
            /\ \A f \in 0..MaxDepth :
                  \A st \in CreationStates \cup {EngineState(e) : e \in 1..Len(engines)} :
                      LET r == getService(descriptors, st, id, f)
                      IN  /\ r.status = "RangeError"
                          /\ r.single = st.single /\ r.scoped = st.scoped
            /\ (last.op = "getService" /\ last.id = id) => last.status = "RangeError"
            /\ LifetimeOf(id) = "singleton" =>
                  /\ engines = <<>>
                  /\ last.op = "build" => last.status = "RangeError"

\* C29 witness: build() failed by stack exhaustion on the singleton "A",
\* which requires "B", which requires "A".
C29_Witness ==
    /\ last.op = "build" /\ last.status = "RangeError"
    /\ LifetimeOf("A") = "singleton"
    /\ DependsOn("A", "B") /\ DependsOn("B", "A")
    /\ engines = <<>> /\ heap = <<>>

\* C30: getService for an identifier registered, with a known lifetime, as a
\* class that has no parameter metadata raises no error; when it constructs,
\* it constructs that class once, with no argument, and nothing else; the
\* caches change by the identifier's own entry at most.
C30_NoMetadataMeansNoDependencies ==
    [][(last'.op = "getService" /\ HasDescriptor(descriptors, last'.id)
          /\ LifetimeOf(last'.id) \in Lifetimes
          /\ DescriptorOf(descriptors, last'.id).factory = NoFactory
          /\ ~hasDesignParamTypes(DescriptorOf(descriptors, last'.id).implementationType)) =>
          LET e == last'.e
              ctor == DescriptorOf(descriptors, last'.id).implementationType
          IN  /\ last'.status = "ok"
              /\ heap' \in {heap, Append(heap, [class |-> ctor.name, deps |-> <<>>])}
              /\ last'.inst = Len(heap) + 1 \/ heap[last'.inst].class = ctor.name
              /\ heap'[last'.inst].deps = <<>>
              /\ \A id \in ServiceIds \ {last'.id} :
                    /\ id \in DOMAIN engines'[e].single <=> id \in DOMAIN engines[e].single
                    /\ id \in DOMAIN engines'[e].scoped <=> id \in DOMAIN engines[e].scoped
      ]_vars

\* C30 witness: a scope constructed the scoped "A", registered as the plain
\* class Object, with no argument.
C30_Witness ==
    /\ Got /\ last.id = "A" /\ Parent(last.e) # 0
    /\ LifetimeOf("A") = "scoped"
    /\ DescriptorOf(descriptors, "A").implementationType = ObjectClass
    /\ DescriptorOf(descriptors, "A").factory = NoFactory
    /\ last.inst = Len(heap)
    /\ heap[last.inst] = [class |-> "Object", deps |-> <<>>]

\* The instances handed to the constructor or factory that made instance i,
\* once the step is taken.
DepsAfter(i) == {heap'[i].deps[k] : k \in 1..Len(heap'[i].deps)}

\* Instance i, made in the step for descriptor d, is the product of d's one
\* construction path: it is what the factory returns when d has a factory
\* and an object of the implementation type otherwise, it was given one
\* instance per identifier that path asks the engine for, and the step made
\* no other object than i and the ones i was given.
OnePath(d, i) ==
    /\ heap'[i].class = ImplName(d)
    /\ Len(heap'[i].deps) = Len(UsesOf(d))
    /\ NewInstances \subseteq {i} \cup DepsAfter(i)

\* C31: a construction runs exactly one path.  With a factory the instance is
\* the factory's and the implementation type is neither instantiated nor
\* asked for its parameters; without a factory the instance is of the
\* implementation type, constructed from its resolved parameters.  A call
\* that fails for want of a descriptor names an identifier the one path asks
\* for.  The same holds of the singletons an engine constructs when created.
C31_OneConstructionPath ==
    [][/\ (last'.op = "getService" /\ HasDescriptor(descriptors, last'.id)) =>
            /\ Constructed => OnePath(DescriptorOf(descriptors, last'.id), last'.inst)
            /\ last'.status = "NotRegistered" =>
                  \E k \in 1..Len(UsesOf(DescriptorOf(descriptors, last'.id))) :
                      UsesOf(DescriptorOf(descriptors, last'.id))[k] = last'.about
       /\ (last'.op \in CreateOps /\ last'.status = "ok") =>
            \A id \in SingletonIds :
                engines'[Len(engines')].single[id] \in NewInstances =>
                    OnePath(DescriptorOf(descriptors, id),
                            engines'[Len(engines')].single[id])
      ]_vars

\* C31 witness: "A" has a factory next to an implementation type whose
\* parameter "B" nobody registered, and getService("A") returned the
\* factory's object.
C31_Witness ==
    /\ Got /\ last.id = "A"
    /\ HasDescriptor(descriptors, "A") /\ ~HasDescriptor(descriptors, "B")
    /\ DescriptorOf(descriptors, "A").factory = Factory0
    /\ DescriptorOf(descriptors, "A").implementationType = NeedsB
    /\ heap[last.inst].class = "Widget"

\* C32: a scope has no state of its own.  dispose() on the scope of engine e
\* leaves the engines, the instances and the registry exactly as dispose()
\* on e itself leaves them, so that whatever follows gives the same results
\* after the one as after the other.
C32_ScopeDisposeIsEngineDispose ==
    [][last'.op = "scope.dispose" =>
          /\ engines' = dispose(engines, last'.e)
          /\ heap' = heap
          /\ descriptors' = descriptors
          /\ mark' = Disposed(last'.e)
      ]_vars

\* C32 witness: dispose() was called on the scope whose engine had returned
\* a scoped instance, and that engine's scoped cache is empty now.
C32_Witness ==
    /\ last.op = "scope.dispose"
    /\ mark.e = last.e /\ mark.disposed
    /\ LifetimeOf(mark.id) = "scoped"
    /\ engines[last.e].parent # 0
    /\ engines[last.e].scoped = EmptyMap

\* The identifiers whose descriptor has a lifetime tag that is none of the
\* three.
InvalidIds ==
    {id \in ServiceIds : HasDescriptor(descriptors, id) /\ LifetimeOf(id) \notin Lifetimes}

\* The construction of x asks, directly or through what it asks for, for an
\* identifier with such a tag.
DependsOnInvalid(x) ==
    \E b \in InvalidIds : Reaches(x, b, Cardinality(ServiceIds))

ValidLifetime(d) == d.lifetime \in Lifetimes

\* The registry as it would be without the descriptors with such a tag.
WithoutInvalid == SelectSeq(descriptors, ValidLifetime)

\* C33 as stated: creating an engine over a registry that holds a descriptor
\* with an unrecognized lifetime tag never raises the unknown-lifetime error.
C33_InvalidTagNeverFailsCreation ==
    [][(last'.op \in CreateOps /\ InvalidIds # {})
          => last'.status # "UnknownLifetime"]_vars

\* C33, amended: the pre-resolution of a new engine never resolves the
\* descriptor with the unrecognized tag itself, so the creation raises the
\* unknown-lifetime error only when a singleton depends on that identifier,
\* and otherwise ends as it would without that descriptor.  getService for
\* the identifier raises the error; a getService that raises it is for the
\* identifier or for one that depends on it; every other identifier resolves
\* as it would without that descriptor.
C33_UnknownLifetimeOnlyThroughItsIdentifier ==
    [][/\ last'.op \in CreateOps =>
            /\ last'.status = "UnknownLifetime" =>
                  \E s \in SingletonIds : DependsOnInvalid(s)
            /\ (\A s \in SingletonIds : ~DependsOnInvalid(s)) =>
                  LET r == preResolve(WithoutInvalid, CreationState, 1, MaxDepth)
                  IN  /\ last'.status = r.status
                      /\ heap' = r.heap
                      /\ r.status = "ok" =>
                            /\ engines'[Len(engines')].single = r.single
                            /\ engines'[Len(engines')].scoped = r.scoped
       /\ last'.op = "getService" =>
            /\ last'.id \in InvalidIds =>
                  last'.status = "UnknownLifetime" /\ last'.about = InvalidLifetime
            /\ last'.status = "UnknownLifetime" =>
                  last'.id \in InvalidIds \/ DependsOnInvalid(last'.id)
            /\ (last'.id \notin InvalidIds /\ ~DependsOnInvalid(last'.id)) =>
                  LET r == getService(WithoutInvalid, EngineState(last'.e),
                                      last'.id, MaxDepth)
                  IN  /\ last'.status = r.status /\ last'.inst = r.inst
                      /\ last'.about = r.about
                      /\ heap' = r.heap
                      /\ engines' = storeCaches(engines, last'.e, r)
      ]_vars

\* C33 witness: the root was created over a registry in which "A" is a
\* singleton and "B" has an unrecognized tag, it holds the singleton, and
\* getService("B") on it raised the unknown-lifetime error.
C33_Witness ==
    /\ last.op = "getService" /\ last.id = "B" /\ last.status = "UnknownLifetime"
    /\ InvalidIds = {"B"}
    /\ LifetimeOf("A") = "singleton"
    /\ "A" \in DOMAIN engines[last.e].single

\* C34: while the registry is not changed after build(), every key of an
\* engine's singleton cache is an identifier registered as singleton and
\* every key of its scoped cache is one registered as scoped; a transient
\* identifier or one without descriptor is a key of neither.
C34_CacheKeysMatchLifetime ==
    \A e \in 1..Len(engines) :
        /\ \A id \in DOMAIN engines[e].single : LifetimeOf(id) = "singleton"
        /\ \A id \in DOMAIN engines[e].scoped : LifetimeOf(id) = "scoped"

\* C34 witness: a scope returned the transient "A", constructed from the
\* scoped "B"; it holds the singleton cache it inherited empty, "B" as the
\* one key of its scoped cache, and "A" in neither.
C34_Witness ==
    /\ Got /\ last.id = "A" /\ Parent(last.e) # 0
    /\ LifetimeOf("A") = "transient" /\ LifetimeOf("B") = "scoped"
    /\ DOMAIN engines[last.e].scoped = {"B"}
    /\ DOMAIN engines[last.e].single = {}

\* C35: the singleton cache of an engine only grows.  No step, be it a
\* getService, a createScope or a dispose on any engine, or a registration
\* made after build(), removes an entry of it or maps its identifier to
\* another instance.
C35_SingletonCacheOnlyGrows ==
    [][\A e \in 1..Len(engines) :
          /\ e \in 1..Len(engines')
          /\ Keeps(engines[e].single, engines'[e].single)]_vars

\* C35 witness: an engine that holds the singleton "A" and has a scope was
\* disposed, and holds it still.
C35_Witness ==
    /\ last.op = "dispose"
    /\ "A" \in DOMAIN engines[last.e].single
    /\ \E s \in 1..Len(engines) : Parent(s) = last.e

\* "A" is registered as a singleton whose class or factory asks for "B", and
\* "B" as scoped.
SingletonOnScoped ==
    /\ LifetimeOf("A") = "singleton" /\ LifetimeOf("B") = "scoped"
    /\ UsesOf(DescriptorOf(descriptors, "A")) = <<"B">>

\* The instance of "B" that the singleton "A" held by engine e was built from.
HeldBy(engs, h, e) == h[engs[e].single["A"]].deps[1]

\* C36: a singleton "A" that depends on the scoped "B" is constructed when
\* the root is created, with no error, from a "B" that the root stores in
\* its own scoped cache.  Every scope inherits that "A" and starts without
\* "B".  A getService("B") succeeds, and returns the instance "A" holds only
\* on the root and only while the root's scoped cache still has it: a scope
\* never returns it, and once the root is disposed the root's next
\* getService("B") and every later one return another instance.
C36_SingletonKeepsItsScopedDependency ==
    [][SingletonOnScoped =>
         /\ last'.op = "build" =>
               /\ last'.status = "ok"
               /\ "A" \in DOMAIN engines'[1].single
               /\ "B" \in DOMAIN engines'[1].scoped
               /\ engines'[1].scoped["B"] = HeldBy(engines', heap', 1)
         /\ last'.op = "createScope" =>
               /\ last'.status = "ok"
               /\ engines'[Len(engines')].single["A"] = engines[last'.e].single["A"]
               /\ "B" \notin DOMAIN engines'[Len(engines')].scoped
         /\ (last'.op = "getService" /\ last'.id = "B") =>
               /\ last'.status = "ok"
               /\ last'.inst = HeldBy(engines, heap, last'.e) =>
                     /\ last'.e = 1
                     /\ "B" \in DOMAIN engines[1].scoped
                     /\ engines[1].scoped["B"] = last'.inst
         /\ last'.op = "dispose" =>
               getService(descriptors, EngineStateAfter(last'.e), "B", MaxDepth).inst
                   # HeldBy(engines, heap, last'.e)
         /\ (engines # <<>> /\ "B" \in DOMAIN engines'[1].scoped
                /\ engines'[1].scoped["B"] = HeldBy(engines, heap, 1)) =>
               /\ "B" \in DOMAIN engines[1].scoped
               /\ engines[1].scoped["B"] = HeldBy(engines, heap, 1)
      ]_vars

\* C36 witness: a scope of the root returned a "B" that is not the one the
\* singleton "A" it inherited was built from, which the root still has in
\* its scoped cache.
C36_Witness ==
    /\ SingletonOnScoped
    /\ Got /\ last.id = "B" /\ Parent(last.e) = 1
    /\ last.inst # HeldBy(engines, heap, last.e)
    /\ engines[1].scoped["B"] = HeldBy(engines, heap, 1)
    /\ engines[last.e].single["A"] = engines[1].single["A"]

====
